---- MODULE Spec2Model ----
(***************************************************************************)
(* Model of the egui/wgpu/winit shell in src/src/main.rs: the Buffers tab  *)
(* mapping (the TabViewer callbacks), the docking tree as the event-loop   *)
(* closure uses it, the alt-tab handler, the surface configuration and the *)
(* event-loop handlers (RedrawRequested, MainEventsCleared, Resized,       *)
(* CloseRequested).                                                        *)
(*                                                                         *)
(* Titles are &'static str in the source; here they are naturals whose     *)
(* order stands for the string order the BTreeMap sorts by.                *)
(* Option<T> is a sequence: None is <<>>, Some(x) is <<x>>.                *)
(***************************************************************************)
EXTENDS Integers, Sequences, FiniteSets, TLC

VARIABLES buffers, tree, surface_config, surface, control_flow, last

vars == <<buffers, tree, surface_config, surface, control_flow, last>>

(* ------------------------------ bounds --------------------------------- *)

\* Number of distinct titles the contract specification draws inputs from.
MaxTitles == 3

\* Largest window dimension a Resized event carries (besides the initial size).
MaxDim == 1

(* ----------------------------- constants ------------------------------- *)

INITIAL_WIDTH == 1300
INITIAL_HEIGHT == 900

source_title == 1
disass_title == 2

\* Stands for usize::MAX, the value 0 - 1 wraps to; only its being larger
\* than every tab count matters.
UsizeMax == 2147483647

AllTitles == 1..MaxTitles

Dims == 0..MaxDim

None == <<>>
Some(x) == <<x>>

(* ------------------------------ TabKind -------------------------------- *)

Source(src) == [kind |-> "Source", src |-> src, id |-> 0]
Listing(id) == [kind |-> "Listing", src |-> "", id |-> id]

(* --------------------- BTreeMap<Title, TabKind> ------------------------ *)
\* A map is the sequence of its entries in ascending key order.

BTreeMapLen(m) == Len(m)

BTreeMapKeys(m) == {m[i].key : i \in 1..Len(m)}

BTreeMapGet(m, k) ==
    IF \E i \in 1..Len(m) : m[i].key = k
    THEN Some((CHOOSE e \in {m[i] : i \in 1..Len(m)} : e.key = k).value)
    ELSE None

BTreeMapRemove(m, k) == SelectSeq(m, LAMBDA e : e.key /= k)

BTreeMapInsert(m, k, v) ==
    LET rest == BTreeMapRemove(m, k)
        lo == SelectSeq(rest, LAMBDA e : e.key < k)
        hi == SelectSeq(rest, LAMBDA e : e.key > k)
    IN lo \o <<[key |-> k, value |-> v]>> \o hi

RECURSIVE BTreeMapFrom(_)
BTreeMapFrom(pairs) ==
    IF pairs = <<>> THEN <<>>
    ELSE LET n == Len(pairs)
         IN BTreeMapInsert(BTreeMapFrom(SubSeq(pairs, 1, n - 1)), pairs[n][1], pairs[n][2])

(* ------------------------------ Buffers -------------------------------- *)

\* Mutants of has_multiple_tabs: "more than one" and "not empty".
has_multiple_tabs_gt(self) == BTreeMapLen(self.inner) > 1
has_multiple_tabs_nonempty(self) == BTreeMapLen(self.inner) /= 0

has_multiple_tabs(self) == BTreeMapLen(self.inner) /= 1

\* TabViewer::ui: the label laid out for a tab, None when the title has no entry.
ui(self, title) ==
    LET got == BTreeMapGet(self.inner, title)
    IN IF got = None THEN None
       ELSE IF got[1].kind = "Source" THEN Some(got[1].src)
       ELSE Some(ToString(got[1].id))

\* TabViewer::title
title(t) == t

\* Mutants of on_close: accepting without removing, never refusing, and
\* removing while reporting a refusal.
on_close_keeps(self, tab) ==
    IF BTreeMapLen(self.inner) = 1
    THEN [ret |-> FALSE, self |-> self]
    ELSE [ret |-> TRUE, self |-> self]
on_close_always(self, tab) ==
    [ret |-> TRUE, self |-> [self EXCEPT !.inner = BTreeMapRemove(self.inner, tab)]]
on_close_silent(self, tab) ==
    IF BTreeMapLen(self.inner) = 1
    THEN [ret |-> FALSE, self |-> self]
    ELSE [ret |-> FALSE, self |-> [self EXCEPT !.inner = BTreeMapRemove(self.inner, tab)]]

\* TabViewer::on_close: the returned flag and the receiver after the call.
on_close(self, tab) ==
    IF BTreeMapLen(self.inner) = 1
    THEN [ret |-> FALSE, self |-> self]
    ELSE [ret |-> TRUE, self |-> [self EXCEPT !.inner = BTreeMapRemove(self.inner, tab)]]

(* --------------------- egui_dock::Tree<Title> ------------------------- *)
\* The docking tree as the closure sees it: tree is the Vec of nodes of a
\* binary tree (root at NodeIndex 0, children of node 0 at 1 and 2) and
\* focused_node the Option<NodeIndex> that focused_leaf() reports. A node is a
\* Leaf { tabs, active } or a Horizontal / Vertical split.

NodeIndexRoot == 0

Leaf(tabs, active) == [kind |-> "Leaf", tabs |-> tabs, active |-> active]
SplitNode(kind) == [kind |-> kind, tabs |-> <<>>, active |-> 0]

\* Tree::new(tabs): one root leaf showing its first tab, nothing focused.
TreeNew(tabs) == [tree |-> <<Leaf(tabs, 0)>>, focused_node |-> None]

\* Tree::len(): the number of nodes.
TreeLen(t) == Len(t.tree)

\* tree[idx]
TreeIndex(t, idx) == t.tree[idx + 1]

IsLeaf(t, idx) == idx < TreeLen(t) /\ TreeIndex(t, idx).kind = "Leaf"

focused_leaf(t) == t.focused_node

set_focused_node(t, idx) ==
    [t EXCEPT !.focused_node = IF IsLeaf(t, idx) THEN Some(idx) ELSE None]

set_active_tab(t, idx, tab_idx) ==
    IF IsLeaf(t, idx) THEN [t EXCEPT !.tree[idx + 1].active = tab_idx] ELSE t

LeafIndices(t) == {i \in 0..(TreeLen(t) - 1) : IsLeaf(t, i)}

TreeTitles(t) ==
    UNION {{TreeIndex(t, i).tabs[k] : k \in 1..Len(TreeIndex(t, i).tabs)} : i \in LeafIndices(t)}

\* usize subtraction as a release build computes it (a debug build panics
\* instead of wrapping).
UsizeSub(a, b) == IF a >= b THEN a - b ELSE UsizeMax - (b - a - 1)

(* -------------------------- alt-tab handler ---------------------------- *)

\* Mutants of the handler: the wrap test against len instead of len - 1,
\* no wrap at all, and no fallback to the root when nothing is focused.
AltTabHandler_len(t) ==
    LET focused_idx == IF focused_leaf(t) /= None THEN focused_leaf(t)[1] ELSE NodeIndexRoot
    IN IF TreeLen(t) = 0 THEN t
       ELSE LET focused == TreeIndex(t, focused_idx)
            IN IF focused.kind = "Leaf"
               THEN IF focused.active /= Len(focused.tabs)
                    THEN set_active_tab(t, focused_idx, focused.active + 1)
                    ELSE set_active_tab(t, focused_idx, 0)
               ELSE t
AltTabHandler_nowrap(t) ==
    LET focused_idx == IF focused_leaf(t) /= None THEN focused_leaf(t)[1] ELSE NodeIndexRoot
    IN IF TreeLen(t) = 0 THEN t
       ELSE LET focused == TreeIndex(t, focused_idx)
            IN IF focused.kind = "Leaf"
               THEN set_active_tab(t, focused_idx, focused.active + 1)
               ELSE t
AltTabHandler_nofallback(t) ==
    IF focused_leaf(t) = None \/ TreeLen(t) = 0 THEN t
    ELSE LET focused_idx == focused_leaf(t)[1]
             focused == TreeIndex(t, focused_idx)
         IN IF focused.kind = "Leaf"
            THEN IF focused.active /= UsizeSub(Len(focused.tabs), 1)
                 THEN set_active_tab(t, focused_idx, focused.active + 1)
                 ELSE set_active_tab(t, focused_idx, 0)
            ELSE t

\* The body run when Alt+Tab is consumed: the tree after the press.
AltTabHandler(t) ==
    LET focused_idx == IF focused_leaf(t) /= None THEN focused_leaf(t)[1] ELSE NodeIndexRoot
    IN IF TreeLen(t) = 0 THEN t
       ELSE LET focused == TreeIndex(t, focused_idx)
            IN IF focused.kind = "Leaf"
               THEN IF focused.active /= UsizeSub(Len(focused.tabs), 1)
                    THEN set_active_tab(t, focused_idx, focused.active + 1)
                    ELSE set_active_tab(t, focused_idx, 0)
               ELSE t

RECURSIVE AltTabTimes(_, _)
AltTabTimes(t, n) == IF n = 0 THEN t ELSE AltTabTimes(AltTabHandler(t), n - 1)

(* ------------------ the docking widget on the tree --------------------- *)
\* What DockArea::show_inside does to the tree for one frame's pointer
\* interaction. The widget is a dependency; these follow its Tree operations.

RemoveAt(seq, k) == SubSeq(seq, 1, k) \o SubSeq(seq, k + 2, Len(seq))

\* Tree::remove_leaf: the root leaf leaves an empty tree; a child leaf is
\* replaced, with its parent, by its sibling, which the focus follows.
remove_leaf(t, node) ==
    IF node = NodeIndexRoot
    THEN [tree |-> <<>>, focused_node |-> None]
    ELSE LET sibling == IF node = 1 THEN 2 ELSE 1
         IN [tree |-> <<TreeIndex(t, sibling)>>,
             focused_node |-> IF t.focused_node = None THEN None ELSE Some(NodeIndexRoot)]

\* Tree::remove_tab((node, tab)): the tab leaves its leaf, the active index
\* steps back when the removed tab was at or before it, and an emptied leaf
\* is removed.
remove_tab(t, node, tab) ==
    LET n == TreeIndex(t, node)
        tabs == RemoveAt(n.tabs, tab)
        active == IF tab <= n.active THEN (IF n.active > 0 THEN n.active - 1 ELSE 0) ELSE n.active
    IN IF tabs /= <<>>
       THEN [t EXCEPT !.tree[node + 1] = Leaf(tabs, active)]
       ELSE remove_leaf(t, node)

\* Tree::split: the root leaf becomes a split whose children are the old
\* leaf and a new leaf holding the dragged tab; the new leaf gets the focus.
split(t, dir, new) ==
    LET old == TreeIndex(t, NodeIndexRoot)
        kind == IF dir \in {"Left", "Right"} THEN "Horizontal" ELSE "Vertical"
        newFirst == dir \in {"Left", "Above"}
    IN [tree |-> IF newFirst THEN <<SplitNode(kind), new, old>> ELSE <<SplitNode(kind), old, new>>,
        focused_node |-> Some(IF newFirst THEN 1 ELSE 2)]

\* Node::append_tab, then focus on the receiving leaf.
append_tab(t, node, tab) ==
    LET n == TreeIndex(t, node)
    IN [tree |-> [t.tree EXCEPT ![node + 1] = Leaf(Append(n.tabs, tab), Len(n.tabs))],
        focused_node |-> Some(node)]

TabPositions(t) ==
    {p \in (0..2) \X (0..(MaxTitles - 1)) : IsLeaf(t, p[1]) /\ p[2] < Len(TreeIndex(t, p[1]).tabs)}

SplitDirs == {"Left", "Right", "Above", "Below"}

NoInteraction == [type |-> "none", node |-> 0, tab |-> 0, dst |-> 0, dir |-> "Left"]

\* The pointer interactions one frame can carry: none, a click on a tab, a
\* close request for a tab, and, when tabs are draggable, a drag of a tab out
\* of the root leaf into a new pane or onto the other pane's tab bar.
\* A close request is not tied to the close buttons being shown: on_close is
\* the widget's callback and is modelled for every request it may deliver.
Interactions(t, draggable) ==
    {NoInteraction}
    \cup {[type |-> "click", node |-> p[1], tab |-> p[2], dst |-> 0, dir |-> "Left"] : p \in TabPositions(t)}
    \cup {[type |-> "close", node |-> p[1], tab |-> p[2], dst |-> 0, dir |-> "Left"] : p \in TabPositions(t)}
    \cup (IF draggable /\ TreeLen(t) = 1 /\ Len(TreeIndex(t, NodeIndexRoot).tabs) >= 2
          THEN {[type |-> "split", node |-> p[1], tab |-> p[2], dst |-> 0, dir |-> d] :
                    p \in TabPositions(t), d \in SplitDirs}
          ELSE {})
    \cup (IF draggable /\ TreeLen(t) = 3
          THEN {[type |-> "move", node |-> p[1], tab |-> p[2], dst |-> 3 - p[1], dir |-> "Left"] :
                    p \in TabPositions(t)}
          ELSE {})

\* DockArea::show_inside(ui, &mut buffers) for one interaction: the tree and
\* the buffers afterwards, and what on_close returned when it was called.
DockAreaShow(t, bufs, inter) ==
    LET tab == TreeIndex(t, inter.node).tabs[inter.tab + 1]
    IN CASE inter.type = "click" ->
              [tree |-> set_focused_node(set_active_tab(t, inter.node, inter.tab), inter.node),
               buffers |-> bufs, on_close |-> "none", close_tab |-> 0]
         [] inter.type = "close" ->
              LET r == on_close(bufs, tab)
              IN [tree |-> IF r.ret THEN remove_tab(t, inter.node, inter.tab) ELSE t,
                  buffers |-> r.self,
                  on_close |-> IF r.ret THEN "true" ELSE "false",
                  close_tab |-> title(tab)]
         [] inter.type = "split" ->
              [tree |-> split(remove_tab(t, inter.node, inter.tab), inter.dir, Leaf(<<tab>>, 0)),
               buffers |-> bufs, on_close |-> "none", close_tab |-> 0]
         [] inter.type = "move" ->
              LET t1 == remove_tab(t, inter.node, inter.tab)
                  dst == IF TreeLen(t1) = 1 THEN NodeIndexRoot ELSE inter.dst
              IN [tree |-> append_tab(t1, dst, tab),
                  buffers |-> bufs, on_close |-> "none", close_tab |-> 0]
         [] OTHER ->
              [tree |-> t, buffers |-> bufs, on_close |-> "none", close_tab |-> 0]

(* ------------------------------ state ---------------------------------- *)
\* buffers          the Buffers value the closure owns
\* tree             the docking tree the closure owns
\* surface_config   the SurfaceConfiguration's width and height
\* surface          the width and height the surface was last configured with
\* control_flow     the event loop's ControlFlow
\* last             what the handler of the last event did (request_redraw:
\*                  it called window.request_redraw())

Quiet ==
    [event |-> "none", acquire |-> "none", acquire_calls |-> 0, logged |-> FALSE,
     layout |-> FALSE, alt_tab |-> FALSE, interaction |-> "none",
     show_close_buttons |-> FALSE, draggable_tabs |-> FALSE,
     on_close |-> "none", close_tab |-> 0, submitted |-> FALSE, presented |-> FALSE,
     configured |-> FALSE, size |-> <<0, 0>>, request_redraw |-> FALSE]

SeedBuffers ==
    [inner |-> BTreeMapFrom(<< <<source_title, Listing(1600)>>,
                               <<disass_title, Source("line 1\nline 2\nline 3")>> >>)]

SeedTree == set_focused_node(TreeNew(<<source_title, disass_title>>), NodeIndexRoot)

InitRest ==
    /\ surface_config = [width |-> INITIAL_WIDTH, height |-> INITIAL_HEIGHT]
    /\ surface = surface_config
    /\ control_flow = "Poll"
    /\ last = Quiet

Init ==
    /\ buffers = SeedBuffers
    /\ tree = SeedTree
    /\ InitRest

(* ------------------------- event-loop handlers ------------------------- *)

\* RedrawRequested, the surface texture acquired: one UI pass (the alt-tab
\* handler when Alt+Tab is consumed, then the dock area), submit and present.
RedrawRequestedFrame ==
    /\ control_flow = "Poll"
    /\ \E alt \in BOOLEAN :
         LET t1 == IF alt THEN AltTabHandler(tree) ELSE tree
             show == has_multiple_tabs(buffers)
             drag == has_multiple_tabs(buffers)
         IN \E inter \in Interactions(t1, drag) :
              LET r == DockAreaShow(t1, buffers, inter)
              IN /\ tree' = r.tree
                 /\ buffers' = r.buffers
                 /\ last' = [Quiet EXCEPT !.event = "RedrawRequested", !.acquire = "ok",
                                          !.acquire_calls = 1, !.layout = TRUE,
                                          !.alt_tab = alt, !.interaction = inter.type,
                                          !.show_close_buttons = show, !.draggable_tabs = drag,
                                          !.on_close = r.on_close, !.close_tab = r.close_tab,
                                          !.submitted = TRUE, !.presented = TRUE]
    /\ UNCHANGED <<surface_config, surface, control_flow>>

\* Mutant of the dropped frame: the failure ends the event loop.
RedrawRequestedDropped_exit ==
    /\ control_flow = "Poll"
    /\ last' = [Quiet EXCEPT !.event = "RedrawRequested", !.acquire = "err",
                             !.acquire_calls = 1, !.logged = TRUE]
    /\ control_flow' = "Exit"
    /\ UNCHANGED <<buffers, tree, surface_config, surface>>

\* RedrawRequested, get_current_texture() failed: log and return.
RedrawRequestedDropped ==
    /\ control_flow = "Poll"
    /\ last' = [Quiet EXCEPT !.event = "RedrawRequested", !.acquire = "err",
                             !.acquire_calls = 1, !.logged = TRUE]
    /\ UNCHANGED <<buffers, tree, surface_config, surface, control_flow>>

\* MainEventsCleared | UserEvent(Event::RequestRedraw)
MainEventsCleared ==
    /\ control_flow = "Poll"
    /\ last' = [Quiet EXCEPT !.event = "MainEventsCleared", !.request_redraw = TRUE]
    /\ UNCHANGED <<buffers, tree, surface_config, surface, control_flow>>

\* Mutant of the resize guard: either dimension positive.
ResizeAccepted_or(w, h) == w > 0 \/ h > 0

\* Whether a Resized(size) reconfigures the surface.
ResizeAccepted(w, h) == w > 0 /\ h > 0

\* WindowEvent::Resized(size)
Resized ==
    /\ control_flow = "Poll"
    /\ \E w \in Dims, h \in Dims :
         /\ IF ResizeAccepted(w, h)
            THEN /\ surface_config' = [surface_config EXCEPT !.width = w, !.height = h]
                 /\ surface' = surface_config'
            ELSE UNCHANGED <<surface_config, surface>>
         /\ last' = [Quiet EXCEPT !.event = "Resized", !.size = <<w, h>>,
                                  !.configured = ResizeAccepted(w, h)]
    /\ UNCHANGED <<buffers, tree, control_flow>>

\* WindowEvent::CloseRequested
CloseRequested ==
    /\ control_flow = "Poll"
    /\ control_flow' = "Exit"
    /\ last' = [Quiet EXCEPT !.event = "CloseRequested"]
    /\ UNCHANGED <<buffers, tree, surface_config, surface>>

Next ==
    \/ RedrawRequestedFrame
    \/ RedrawRequestedDropped
    \/ MainEventsCleared
    \/ Resized
    \/ CloseRequested

Spec == Init /\ [][Next]_vars

(* -------------- the redraw handler on arbitrary inputs ----------------- *)
\* The RedrawRequested handler started from any Buffers value over
\* AllTitles, or from any well-formed tree of at most one split.

TabKindFor(t) ==
    IF t = source_title THEN Listing(1600)
    ELSE IF t = disass_title THEN Source("line 1\nline 2\nline 3")
    ELSE Listing(t)

RECURSIVE BuffersOver(_)
BuffersOver(S) ==
    IF S = {} THEN <<>>
    ELSE LET k == CHOOSE x \in S : TRUE
         IN BTreeMapInsert(BuffersOver(S \ {k}), k, TabKindFor(k))

TabSeqs(S) ==
    {q \in UNION {[1..n -> S] : n \in 1..Cardinality(S)} :
        \A i, j \in 1..Len(q) : i /= j => q[i] /= q[j]}

LeavesOver(S) ==
    {Leaf(x[1], x[2]) : x \in {y \in TabSeqs(S) \X (0..(Cardinality(S) - 1)) : y[2] < Len(y[1])}}

Range(q) == {q[i] : i \in 1..Len(q)}

WellFormedTrees ==
    {[tree |-> <<>>, focused_node |-> None]}
    \cup {[tree |-> <<l>>, focused_node |-> f] :
            l \in LeavesOver(AllTitles), f \in {None, Some(NodeIndexRoot)}}
    \cup {[tree |-> <<SplitNode(k), p[1], p[2]>>, focused_node |-> f] :
            k \in {"Horizontal", "Vertical"},
            p \in {x \in LeavesOver(AllTitles) \X LeavesOver(AllTitles) :
                      Range(x[1].tabs) \cap Range(x[2].tabs) = {}},
            f \in {None, Some(1), Some(2)}}

InitAny ==
    /\ \/ buffers \in {[inner |-> BuffersOver(S)] : S \in SUBSET AllTitles} /\ tree = SeedTree
       \/ buffers = SeedBuffers /\ tree \in WellFormedTrees
    /\ InitRest

NextAny ==
    \/ RedrawRequestedFrame
    \/ RedrawRequestedDropped

SpecAny == InitAny /\ [][NextAny]_vars

(* ------------------------------ claims --------------------------------- *)

Keys(bufs) == BTreeMapKeys(bufs.inner)

\* A frame whose UI pass consumed Alt+Tab and carried no pointer interaction.
AltTabOnly == last'.event = "RedrawRequested" /\ last'.alt_tab /\ last'.interaction = "none"

\* The node the handler works on: the focused leaf, else the root.
Selected(t) == IF focused_leaf(t) /= None THEN focused_leaf(t)[1] ELSE NodeIndexRoot

OtherNodesUnchanged(idx) ==
    /\ TreeLen(tree') = TreeLen(tree)
    /\ tree'.focused_node = tree.focused_node
    /\ \A j \in 0..(TreeLen(tree) - 1) : j /= idx => TreeIndex(tree', j) = TreeIndex(tree, j)
    /\ TreeIndex(tree', idx).tabs = TreeIndex(tree, idx).tabs

\* C1: on_close(tab) on a mapping of more than one entry returns true, the
\* entry keyed by tab is gone afterwards and every other entry is as before;
\* on a mapping of exactly one entry it returns false and changes nothing.
C1_OnClose ==
    [][ last'.on_close /= "none" =>
          LET tab == last'.close_tab
          IN /\ BTreeMapLen(buffers.inner) > 1 =>
                  /\ last'.on_close = "true"
                  /\ tab \notin Keys(buffers')
                  /\ \A k \in AllTitles \ {tab} :
                        BTreeMapGet(buffers'.inner, k) = BTreeMapGet(buffers.inner, k)
             /\ BTreeMapLen(buffers.inner) = 1 =>
                  /\ last'.on_close = "false"
                  /\ buffers' = buffers ]_vars

\* C1 witness: an accepted close has removed an entry and left others.
C1_Witness ==
    /\ last.on_close = "true"
    /\ last.close_tab \notin Keys(buffers)
    /\ BTreeMapLen(buffers.inner) = MaxTitles - 1

\* C2: for every mapping, the empty one included, has_multiple_tabs returns
\* false if and only if the mapping holds exactly one entry.
C2_HasMultipleTabs ==
    [][ last'.layout =>
          (last'.show_close_buttons = FALSE <=> BTreeMapLen(buffers.inner) = 1) ]_vars

\* C2 witness: a frame over the empty mapping, where it returned true.
C2_Witness ==
    /\ last.layout
    /\ last.on_close = "none"
    /\ BTreeMapLen(buffers.inner) = 0
    /\ last.show_close_buttons

\* C3: a consumed Alt+Tab press on a focused pane of N >= 1 tabs with active
\* index i < N sets the pane's active index to (i + 1) mod N and touches
\* nothing else, and N presses bring the active index back to i.
C3_AltTabCycles ==
    [][ AltTabOnly =>
          \A idx \in LeafIndices(tree) :
             LET N == Len(TreeIndex(tree, idx).tabs)
                 i == TreeIndex(tree, idx).active
             IN (focused_leaf(tree) = Some(idx) /\ N > 0 /\ i < N) =>
                  /\ TreeIndex(tree', idx).active = (i + 1) % N
                  /\ OtherNodesUnchanged(idx)
                  /\ TreeIndex(AltTabTimes(tree, N), idx).active = i ]_vars

\* C3 witness: a press has wrapped a focused pane of MaxTitles tabs to 0.
C3_Witness ==
    /\ last.alt_tab /\ last.interaction = "none"
    /\ \E idx \in LeafIndices(tree) :
          /\ focused_leaf(tree) = Some(idx)
          /\ Len(TreeIndex(tree, idx).tabs) = MaxTitles
          /\ TreeIndex(tree, idx).active = 0

\* C4 as stated: a consumed Alt+Tab press changes no pane's active index when
\* the tree reports no focused leaf or the tab set is empty.
C4_Original ==
    [][ (AltTabOnly /\ (focused_leaf(tree) = None \/ TreeTitles(tree) = {})) =>
          tree' = tree ]_vars

\* C4 amended: the press is a no-op when the tree has no nodes or the node
\* the handler selects (the focused leaf, else the root) is not a leaf pane;
\* with no focused leaf and a root leaf pane of N tabs, active index i < N,
\* the root's active index becomes (i + 1) mod N.
C4_AltTabNoOp ==
    [][ AltTabOnly =>
          /\ (TreeLen(tree) = 0 \/ ~IsLeaf(tree, Selected(tree))) => tree' = tree
          /\ (focused_leaf(tree) = None /\ IsLeaf(tree, NodeIndexRoot)) =>
                LET N == Len(TreeIndex(tree, NodeIndexRoot).tabs)
                    i == TreeIndex(tree, NodeIndexRoot).active
                IN (N > 0 /\ i < N) =>
                     /\ TreeIndex(tree', NodeIndexRoot).active = (i + 1) % N
                     /\ OtherNodesUnchanged(NodeIndexRoot) ]_vars

\* C4 witness: a press with nothing focused, on a tree with no leaf at the
\* root (empty, or split into two panes).
C4_Witness ==
    /\ last.alt_tab /\ last.interaction = "none"
    /\ focused_leaf(tree) = None
    /\ ~IsLeaf(tree, NodeIndexRoot)

\* C5: from the seeded two-tab state, after any close requests the mapping
\* holds at least one entry and its keys are pairwise distinct.
C5_NeverEmpty ==
    /\ BTreeMapLen(buffers.inner) >= 1
    /\ \A i, j \in 1..Len(buffers.inner) :
          i /= j => buffers.inner[i].key /= buffers.inner[j].key

\* C5 witness: a close of the last remaining tab was refused.
C5_Witness ==
    /\ last.on_close = "false"
    /\ BTreeMapLen(buffers.inner) = 1

\* C6: a RedrawRequested whose texture acquisition fails logs the failure,
\* runs no UI pass, submits and presents nothing, leaves the mapping, the
\* tree and the surface configuration alone, calls the acquisition once, and
\* leaves the event loop running with the next redraw able to acquire again.
C6_DroppedFrame ==
    /\ [][ (last'.event = "RedrawRequested" /\ last'.acquire = "err") =>
             /\ last'.logged
             /\ ~last'.layout /\ ~last'.alt_tab
             /\ ~last'.submitted /\ ~last'.presented
             /\ last'.acquire_calls = 1
             /\ control_flow' = "Poll"
             /\ UNCHANGED <<buffers, tree, surface_config, surface>> ]_vars
    /\ [][ last'.event = "RedrawRequested" => last'.acquire_calls = 1 ]_vars
    /\ [](last.acquire = "err" => ENABLED RedrawRequestedFrame)

\* C6 witness: a frame was dropped after the tabs and the surface had changed.
C6_Witness ==
    /\ last.acquire = "err" /\ last.logged
    /\ BTreeMapLen(buffers.inner) = 1
    /\ surface_config.width /= INITIAL_WIDTH

\* C7: Resized(w, h) sets the surface configuration to (w, h) and
\* reconfigures the surface exactly when w > 0 and h > 0, and otherwise
\* leaves both alone; the stored width and height are always positive.
C7_Resized ==
    /\ [][ last'.event = "Resized" =>
             LET w == last'.size[1]
                 h == last'.size[2]
             IN IF w > 0 /\ h > 0
                THEN /\ surface_config'.width = w /\ surface_config'.height = h
                     /\ last'.configured
                     /\ surface' = surface_config'
                ELSE /\ ~last'.configured
                     /\ UNCHANGED <<surface_config, surface>> ]_vars
    /\ [](surface_config.width > 0 /\ surface_config.height > 0)

\* C7 witness: a resize to a zero dimension was ignored.
C7_Witness ==
    /\ last.event = "Resized"
    /\ ~last.configured
    /\ last.size[1] > 0 /\ last.size[2] = 0
    /\ surface_config.width /= INITIAL_WIDTH

\* C8: in every frame the dock area gets close buttons and draggable tabs
\* exactly when the mapping holds more than one entry; in every state
\* has_multiple_tabs tells whether more than one tab exists.
C8_CloseButtons ==
    /\ [][ last'.layout =>
             /\ last'.show_close_buttons = (BTreeMapLen(buffers.inner) > 1)
             /\ last'.draggable_tabs = (BTreeMapLen(buffers.inner) > 1) ]_vars
    /\ [](has_multiple_tabs(buffers) = (BTreeMapLen(buffers.inner) > 1))

\* C8 witness: a frame over a single tab, shown without close buttons.
C8_Witness ==
    /\ last.layout
    /\ last.on_close = "none"
    /\ ~last.show_close_buttons /\ ~last.draggable_tabs
    /\ BTreeMapLen(buffers.inner) = 1

====
